---- MODULE Spec2Model ----
(***************************************************************************)
(* Model of the data-visualiser frontend.                                  *)
(*                                                                         *)
(*   Home (page.tsx)           the upload controller: the three useState   *)
(*                             cells uploadResult / loading / error and    *)
(*                             the async handler handleFileUpload, cut at  *)
(*                             its two awaits (fetch, response.json()).    *)
(*   ChartDisplay              the suggestion renderer: renderChart's      *)
(*                             switch on suggestion.type.toLowerCase(),    *)
(*                             the COLORS palette and the point footer.    *)
(*                                                                         *)
(* JavaScript values are tagged records, strings that the code inspects    *)
(* character by character (the chart type) are sequences of characters.    *)
(***************************************************************************)
EXTENDS Integers, Sequences, FiniteSets, TLC

\* ------------------------------------------------------------- bounds

\* Number of handleFileUpload calls in one run.
MaxCalls == 2
\* Longest free-form chart type string drawn over SmallAlphabet.
MaxTypeLen == 3
\* Largest number of records in a suggestion's data.
MaxPoints == 7
\* Largest positional index of a suggestion on the page.
MaxIndex == 7

\* ------------------------------------------------------ JavaScript values

JNull == [t |-> "null"]
JUndefined == [t |-> "undefined"]
JStr(s) == [t |-> "string", s |-> s]
JNum(n) == [t |-> "number", n |-> n]
JArr(a) == [t |-> "array", a |-> a]
JObj(f) == [t |-> "object", f |-> f]
EmptyFields == [k \in {} |-> JUndefined]

\* v.k as JavaScript evaluates it on a non-nullish v: a missing property, and
\* any property of a primitive other than a string's or an array's length, is
\* undefined.
Get(v, k) ==
  CASE v.t = "object" -> IF k \in DOMAIN v.f THEN v.f[k] ELSE JUndefined
    [] v.t = "array" /\ k = "length" -> JNum(Len(v.a))
    [] v.t = "string" /\ k = "length" -> JNum(0)
    [] OTHER -> JUndefined

IsNullish(v) == v.t \in {"null", "undefined"}

\* ToBoolean: what `x || y` and `{x && ...}` test.
Truthy(v) ==
  CASE v.t \in {"null", "undefined"} -> FALSE
    [] v.t = "string" -> v.s # ""
    [] v.t = "number" -> v.n # 0
    [] OTHER -> TRUE

RECURSIVE ToStringJS(_)
\* String(v), which new Error(v) applies to its argument.
ToStringJS(v) ==
  CASE v.t = "string" -> v.s
    [] v.t = "object" -> "[object Object]"
    [] v.t = "array" ->
         IF Len(v.a) = 0 THEN ""
         ELSE IF Len(v.a) = 1 THEN ToStringJS(v.a[1])
         ELSE ToStringJS(v.a[1]) \o "," \o ToStringJS(JArr(Tail(v.a)))
    [] v.t = "number" -> ToString(v.n)
    [] OTHER -> v.t

\* ------------------------------------------------- the submission endpoint

\* The files a user can drop.
Files == {"a.csv", "b.csv"}

\* A response body: text that JSON.parse rejects, or the text of a JSON value.
Garbage == [parseable |-> FALSE, value |-> JUndefined]
Json(v) == [parseable |-> TRUE, value |-> v]

Row(x, y) == JObj([a |-> JStr(x), b |-> JNum(y)])

BarSuggestion ==
  JObj([type |-> JStr("bar"), title |-> JStr("T"), x_axis |-> JStr("a"),
        y_axis |-> JStr("b"), explanation |-> JStr("E"),
        data |-> JArr(<<Row("x", 1), Row("y", 2)>>)])

DataInfo(rows) ==
  JObj([columns |-> JArr(<<JStr("a"), JStr("b")>>), row_count |-> JNum(rows),
        column_count |-> JNum(2), sample_data |-> JArr(<<Row("x", 1)>>),
        column_types |-> JObj([a |-> JStr("string"), b |-> JStr("number")])])

\* Two well-formed UploadResponse bodies, told apart by their row count.
ResultA ==
  JObj([status |-> JStr("ok"), data_info |-> DataInfo(2),
        chart_suggestions |-> JArr(<<BarSuggestion>>)])
ResultB ==
  JObj([status |-> JStr("ok"), data_info |-> DataInfo(3),
        chart_suggestions |-> JArr(<<>>)])

\* Bodies that parse but are no UploadResponse.
NoSuggestions == JObj([status |-> JStr("ok"), data_info |-> DataInfo(2)])
SuggestionsNotArray ==
  JObj([status |-> JStr("ok"), data_info |-> DataInfo(2),
        chart_suggestions |-> JStr("none")])
EmptyObject == JObj(EmptyFields)

\* Error bodies: FastAPI's {"detail": "..."}, its 422 body whose detail is a
\* list of objects, a body with an empty detail and one without detail.
DetailText == "unsupported file type"
DetailBody == JObj([detail |-> JStr(DetailText)])
EmptyDetailBody == JObj([detail |-> JStr("")])
ListDetailBody ==
  JObj([detail |-> JArr(<<JObj([msg |-> JStr("field required")])>>)])

Bodies ==
  {Garbage} \cup
  {Json(v) : v \in {ResultA, ResultB, NoSuggestions, SuggestionsNotArray,
                    EmptyObject, JNull, DetailBody, EmptyDetailBody,
                    ListDetailBody}}

\* What fetch settles with: a rejection (no response at all), or a Response
\* with its ok flag and its body.
NetworkFailure == [kind |-> "rejected"]
Response(ok, body) == [kind |-> "response", ok |-> ok, body |-> body]
FetchOutcomes ==
  {NetworkFailure} \cup {Response(ok, b) : ok \in BOOLEAN, b \in Bodies}

\* ---------------------------------------------------------------- errors

\* A thrown value, as the catch clause sees it.
Thrown(isError, message) == [isError |-> isError, message |-> message]
NoThrow == [isError |-> FALSE, message |-> "(none)"]

UploadFailed == "Upload failed"
AnErrorOccurred == "An error occurred"
\* Messages of the errors the platform raises (engine wording).
FailedToFetch == "Failed to fetch"
JsonSyntaxError == "Unexpected token < in JSON at position 0"
NullPropertyError == "Cannot read properties of null (reading 'detail')"

\* await response.json(): the parsed value, or a SyntaxError.
ResponseJson(body) ==
  IF body.parseable
    THEN [threw |-> NoThrow, value |-> body.value]
    ELSE [threw |-> Thrown(TRUE, JsonSyntaxError), value |-> JUndefined]

\* throw new Error(errorData.detail || 'Upload failed'), or the TypeError of
\* reading a property of null.
ErrorOfErrorData(errorData) ==
  IF IsNullish(errorData)
    THEN Thrown(TRUE, NullPropertyError)
    ELSE LET detail == Get(errorData, "detail")
         IN  IF Truthy(detail)
               THEN Thrown(TRUE, ToStringJS(detail))
               ELSE Thrown(TRUE, UploadFailed)

\* err instanceof Error ? err.message : 'An error occurred'
CatchMessage(err) == IF err.isError THEN err.message ELSE AnErrorOccurred


\* ------------------------------------------------------- rendering Home

\* Whether rendering one ChartDisplay for the suggestion s throws: the switch
\* calls suggestion.type.toLowerCase(), the footer reads suggestion.data.length
\* and the pie branch calls suggestion.data.map.
SuggestionRenderThrows(s) ==
  \/ IsNullish(s)
  \/ Get(s, "type").t # "string"
  \/ IsNullish(Get(s, "data"))
  \/ Get(s, "type").s = "pie" /\ Get(s, "data").t # "array"

\* Whether rendering Home with uploadResult = r throws a TypeError: the
\* {uploadResult && ...} block reads data_info.row_count.toLocaleString(),
\* chart_suggestions.length, data_info.columns.map and chart_suggestions.map.
HomeRenderThrows(r) ==
  /\ Truthy(r)
  /\ LET info == Get(r, "data_info")
         suggestions == Get(r, "chart_suggestions")
     IN  \/ IsNullish(info)
         \/ IsNullish(Get(info, "row_count"))
         \/ IsNullish(suggestions)
         \/ Get(info, "columns").t # "array"
         \/ suggestions.t # "array"
         \/ \E i \in 1..Len(suggestions.a) :
              SuggestionRenderThrows(suggestions.a[i])

\* ------------------------------------------------------------ the state

VARIABLES
  uploadResult,   \* useState<UploadResponse | null>
  loading,        \* useState(false)
  error,          \* useState<string | null>
  crashed,        \* a render of Home threw: React has unmounted the page
  calls,          \* the handleFileUpload invocations suspended at an await
  issued,         \* how many times handleFileUpload has been called
  requests,       \* the POST /upload requests sent so far, in order
  writer,         \* history: the call whose code last wrote the three cells
  suggestion,     \* ChartDisplay's prop
  index,          \* ChartDisplay's prop
  rendered        \* what ChartDisplay returned for (suggestion, index)

controllerVars ==
  <<uploadResult, loading, error, crashed, calls, issued, requests, writer>>
rendererVars == <<suggestion, index, rendered>>
vars == <<controllerVars, rendererVars>>

NoResponse == [kind |-> "pending"]
NotRendered == [chart |-> "(not rendered)"]
NoSuggestion == [type |-> <<>>, x_axis |-> "a", y_axis |-> "b", data |-> <<>>]

ControllerInit ==
  /\ uploadResult = JNull
  /\ loading = FALSE
  /\ error = JNull
  /\ crashed = FALSE
  /\ calls = {}
  /\ issued = 0
  /\ requests = <<>>
  /\ writer = 0

Init ==
  /\ ControllerInit
  /\ suggestion = NoSuggestion
  /\ index = 0
  /\ rendered = NotRendered

\* ------------------------------------------------------ handleFileUpload

\* <FileUpload onFileUpload={handleFileUpload} loading={loading} />: the
\* component lives in components/FileUpload. handleFileUpload tests nothing
\* itself, and the design has further user input start a new submission while
\* one is pending, so a file can be handed over whenever Home is mounted.
FileUploadAccepts == ~crashed

\* handleFileUpload without setUploadResult(null): the previous result stays
\* on screen while the next file uploads.
HandleFileUploadKeepsResult(file) ==
  /\ FileUploadAccepts
  /\ issued < MaxCalls
  /\ issued' = issued + 1
  /\ loading' = TRUE
  /\ error' = JNull
  /\ requests' = Append(requests, [id |-> issued + 1, file |-> file])
  /\ calls' = calls \cup {[id |-> issued + 1, pc |-> "fetch",
                          response |-> NoResponse]}
  /\ writer' = issued + 1
  /\ UNCHANGED <<uploadResult, crashed, rendererVars>>

\* handleFileUpload posting the form twice.
HandleFileUploadSendsTwice(file) ==
  /\ FileUploadAccepts
  /\ issued < MaxCalls
  /\ issued' = issued + 1
  /\ loading' = TRUE
  /\ error' = JNull
  /\ uploadResult' = JNull
  /\ requests' = requests \o <<[id |-> issued + 1, file |-> file],
                               [id |-> issued + 1, file |-> file]>>
  /\ calls' = calls \cup {[id |-> issued + 1, pc |-> "fetch",
                          response |-> NoResponse]}
  /\ writer' = issued + 1
  /\ UNCHANGED <<crashed, rendererVars>>

\* The synchronous head of handleFileUpload: the three resets, then the
\* request is sent and the call suspends at await fetch.
HandleFileUpload(file) ==
  /\ FileUploadAccepts
  /\ issued < MaxCalls
  /\ issued' = issued + 1
  /\ loading' = TRUE
  /\ error' = JNull
  /\ uploadResult' = JNull
  /\ requests' = Append(requests, [id |-> issued + 1, file |-> file])
  /\ calls' = calls \cup {[id |-> issued + 1, pc |-> "fetch",
                          response |-> NoResponse]}
  /\ writer' = issued + 1
  /\ UNCHANGED <<crashed, rendererVars>>

\* What the body of the try block ends with once response.json() settles:
\* a thrown error (the !response.ok branch always throws) or the parsed value
\* handed to setUploadResult.
TryOutcome(response) ==
  LET parsed == ResponseJson(response.body)
  IN  IF parsed.threw.isError
        THEN [ok |-> FALSE, threw |-> parsed.threw, value |-> JUndefined]
        ELSE IF ~response.ok
          THEN [ok |-> FALSE, threw |-> ErrorOfErrorData(parsed.value),
                value |-> JUndefined]
          ELSE [ok |-> TRUE, threw |-> NoThrow, value |-> parsed.value]

\* The tail of handleFileUpload for call c: setUploadResult or the catch
\* clause's setError, then finally's setLoading(false); React applies the
\* batch (the setters of one continuation take effect together) and renders
\* Home again. On an unmounted page the setters do nothing.
Settle(c, outcome) ==
  /\ calls' = calls \ {c}
  /\ IF crashed
       THEN UNCHANGED <<uploadResult, error, loading, writer, crashed>>
       ELSE /\ uploadResult' = IF outcome.ok THEN outcome.value ELSE uploadResult
            /\ error' = IF outcome.ok THEN error
                        ELSE JStr(CatchMessage(outcome.threw))
            /\ loading' = FALSE
            /\ writer' = c.id
            /\ crashed' = HomeRenderThrows(uploadResult')
  /\ UNCHANGED <<issued, requests, rendererVars>>

\* await fetch rejects: no response arrived.
FetchRejects(c) ==
  /\ c.pc = "fetch"
  /\ Settle(c, [ok |-> FALSE, threw |-> Thrown(TRUE, FailedToFetch),
                value |-> JUndefined])

\* await fetch resolves with a Response; the call goes on to await
\* response.json() (line 49 when !response.ok, line 53 otherwise).
FetchResolves(c, response) ==
  /\ c.pc = "fetch"
  /\ calls' = (calls \ {c}) \cup {[c EXCEPT !.pc = "json", !.response = response]}
  /\ UNCHANGED <<uploadResult, loading, error, crashed, issued, requests,
                 writer, rendererVars>>

\* await response.json() settles and the handler runs to its end.
JsonSettles(c) ==
  /\ c.pc = "json"
  /\ Settle(c, TryOutcome(c.response))

Next ==
  \/ \E file \in Files : HandleFileUpload(file)
  \/ \E c \in calls : FetchRejects(c)
  \/ \E c \in calls : \E response \in FetchOutcomes \ {NetworkFailure} :
       FetchResolves(c, response)
  \/ \E c \in calls : JsonSettles(c)

Spec == Init /\ [][Next]_vars


\* ---------------------------------------------------------- ChartDisplay

COLORS == <<"#0088FE", "#00C49F", "#FFBB28", "#FF8042", "#8884D8", "#82CA9D">>

\* The letters of the five chart type names, and their capitals.
LowerLetters == <<"a", "b", "c", "e", "i", "l", "n", "p", "r", "s", "t">>
UpperLetters == <<"A", "B", "C", "E", "I", "L", "N", "P", "R", "S", "T">>

ToLowerChar(ch) ==
  IF \E k \in 1..Len(UpperLetters) : UpperLetters[k] = ch
    THEN LowerLetters[CHOOSE k \in 1..Len(UpperLetters) : UpperLetters[k] = ch]
    ELSE ch

\* A switch on suggestion.type as received, without toLowerCase().
ToLowerCaseOmitted(str) == str

\* String.prototype.toLowerCase on a string given as its characters.
ToLowerCase(str) == [k \in 1..Len(str) |-> ToLowerChar(str[k])]

BAR == <<"b", "a", "r">>
LINE == <<"l", "i", "n", "e">>
PIE == <<"p", "i", "e">>
SCATTER == <<"s", "c", "a", "t", "t", "e", "r">>
AREA == <<"a", "r", "e", "a">>

\* COLORS[index], without the modulo: undefined past the palette's end.
ColorAtNoWrap(i) == IF i < Len(COLORS) THEN COLORS[i + 1] ELSE "undefined"

\* COLORS[index % COLORS.length]
ColorAt(i) == COLORS[(i % Len(COLORS)) + 1]

NoCells == <<>>
NoType == <<>>
NoKey == "(none)"

\* renderChart: the chart element returned for the suggestion, with the data
\* keys and colours it is given; the default arm shows the type as received.
renderChart(s, i) ==
  LET type == ToLowerCase(s.type)
  IN  CASE type = BAR ->
             [chart |-> "BarChart", x |-> s.x_axis, y |-> s.y_axis,
              fill |-> ColorAt(i), cells |-> NoCells, shownType |-> NoType,
              data |-> s.data]
        [] type = LINE ->
             [chart |-> "LineChart", x |-> s.x_axis, y |-> s.y_axis,
              fill |-> ColorAt(i), cells |-> NoCells, shownType |-> NoType,
              data |-> s.data]
        [] type = PIE ->
             [chart |-> "PieChart", x |-> "name", y |-> "value",
              fill |-> "#8884d8",
              cells |-> [k \in 1..Len(s.data) |-> ColorAt(k - 1)],
              shownType |-> NoType, data |-> s.data]
        [] type = SCATTER ->
             [chart |-> "ScatterChart", x |-> s.x_axis, y |-> s.y_axis,
              fill |-> ColorAt(i), cells |-> NoCells, shownType |-> NoType,
              data |-> s.data]
        [] type = AREA ->
             [chart |-> "AreaChart", x |-> s.x_axis, y |-> s.y_axis,
              fill |-> ColorAt(i), cells |-> NoCells, shownType |-> NoType,
              data |-> s.data]
        [] OTHER ->
             [chart |-> "unsupported", x |-> NoKey, y |-> NoKey,
              fill |-> NoKey, cells |-> NoCells, shownType |-> s.type,
              data |-> <<>>]

\* The ChartDisplay component: the chart and the "Showing N data points"
\* footer.
ChartDisplay(s, i) == [chart |-> renderChart(s, i), footer |-> Len(s.data)]

\* The inputs of the renderer: every spelling of the five names in mixed
\* case, every string of at most MaxTypeLen characters over a small alphabet,
\* and two longer unknown names.
CaseVariants(name) ==
  {[k \in 1..Len(name) |->
      IF k \in U
        THEN UpperLetters[CHOOSE j \in 1..Len(LowerLetters) :
                            LowerLetters[j] = name[k]]
        ELSE name[k]] : U \in SUBSET (1..Len(name))}
SmallAlphabet == {"p", "i", "e", "P", "x"}
TypeStrings ==
  UNION {CaseVariants(name) : name \in {BAR, LINE, PIE, SCATTER, AREA}}
  \cup UNION {[1..n -> SmallAlphabet] : n \in 0..MaxTypeLen}
  \cup {<<"b", "a", "r", "s">>, <<"d", "o", "n", "u", "t">>}

DataOf(n) == [k \in 1..n |-> [name |-> k, value |-> k]]

RenderInit ==
  /\ ControllerInit
  /\ suggestion \in {[type |-> t, x_axis |-> "a", y_axis |-> "b",
                      data |-> DataOf(n)] :
                       t \in TypeStrings, n \in 0..MaxPoints}
  /\ index \in 0..MaxIndex
  /\ rendered = NotRendered

\* Home renders <ChartDisplay suggestion={suggestion} index={index} />.
Render ==
  /\ rendered = NotRendered
  /\ rendered' = ChartDisplay(suggestion, index)
  /\ UNCHANGED <<controllerVars, suggestion, index>>

RenderNext == Render

RenderSpec == RenderInit /\ [][RenderNext]_vars


\* --------------------------------------------------- the data contract

IsStringArray(v) ==
  v.t = "array" /\ \A k \in 1..Len(v.a) : v.a[k].t = "string"

\* interface ChartSuggestion
IsChartSuggestion(v) ==
  /\ v.t = "object"
  /\ Get(v, "type").t = "string"
  /\ Get(v, "title").t = "string"
  /\ Get(v, "x_axis").t \in {"string", "undefined"}
  /\ Get(v, "y_axis").t \in {"string", "undefined"}
  /\ Get(v, "explanation").t = "string"
  /\ Get(v, "data").t = "array"

\* interface UploadResponse
IsUploadResponse(v) ==
  /\ v.t = "object"
  /\ Get(v, "status").t = "string"
  /\ LET info == Get(v, "data_info")
     IN  /\ info.t = "object"
         /\ IsStringArray(Get(info, "columns"))
         /\ Get(info, "row_count").t = "number"
         /\ Get(info, "column_count").t = "number"
         /\ Get(info, "sample_data").t = "array"
         /\ Get(info, "column_types").t = "object"
  /\ LET suggestions == Get(v, "chart_suggestions")
     IN  /\ suggestions.t = "array"
         /\ \A k \in 1..Len(suggestions.a) : IsChartSuggestion(suggestions.a[k])

WellFormedBody(body) == body.parseable /\ IsUploadResponse(body.value)

\* ------------------------------------------------------------ properties

\* Call c finishes in this step.
Finishes(c) == c \in calls /\ \A d \in calls' : d.id # c.id

\* C1. A response of a superseded submission never writes uploadResult, error
\* or loading: the three cells were last written by the latest call of
\* handleFileUpload, so once every call has finished they show the outcome of
\* the last submission only.
C1_StaleResponseDiscarded == writer = issued

\* C2. Whenever loading is true no earlier outcome is shown: uploadResult and
\* error are both null.
C2_NoOutcomeWhileLoading == loading => (uploadResult = JNull /\ error = JNull)

\* A second submission is loading after an earlier one has finished.
C2_Witness == loading /\ issued >= 2 /\ Cardinality(calls) = 1

\* The messages C3 allows for a non-2xx body: the detail string when the body
\* has one (an empty detail may also fall back), else the generic message.
AllowedFailureMessages(body) ==
  IF body.parseable /\ body.value.t = "object"
     /\ Get(body.value, "detail").t = "string"
    THEN IF Get(body.value, "detail").s = ""
           THEN {"", UploadFailed}
           ELSE {Get(body.value, "detail").s}
    ELSE {UploadFailed}

\* C3. A submission answered with a non-2xx response ends with uploadResult
\* null and error equal to the body's detail string, or to the generic
\* failure message when the body has no readable detail.
C3_NonOkShowsDetailOrGeneric ==
  [][\A c \in calls :
       (Finishes(c) /\ c.pc = "json" /\ ~c.response.ok) =>
         /\ uploadResult' = JNull
         /\ error'.t = "string"
         /\ error'.s \in AllowedFailureMessages(c.response.body)]_vars

\* C4. A 2xx response whose body is not a well-formed UploadResponse ends in
\* Failed: an error message is set and uploadResult stays null.
C4_MalformedBodyFails ==
  [][\A c \in calls :
       (Finishes(c) /\ c.pc = "json" /\ c.response.ok
          /\ ~WellFormedBody(c.response.body)) =>
         (uploadResult' = JNull /\ error' # JNull)]_vars

\* C5 as stated: at most one upload request is outstanding at any time.
C5_AtMostOneInFlight == Cardinality({c \in calls : c.pc = "fetch"}) <= 1

\* C5 as amended: every call of handleFileUpload sends exactly one request
\* (no retry, no duplicate), so no call has two requests outstanding; calls
\* are not blocked or cancelled, so requests of different calls may overlap.
C5_OneRequestPerCall ==
  /\ Len(requests) = issued
  /\ \A c \in calls :
       Cardinality({k \in DOMAIN requests : requests[k].id = c.id}) = 1

\* Two requests of overlapping calls are outstanding together.
C5_Witness == Cardinality({c \in calls : c.pc = "fetch"}) = 2

\* Call c finishes as a failed submission: fetch rejected, the response was
\* not 2xx, or its body is no UploadResponse.
FinishesFailed(c) ==
  /\ Finishes(c)
  /\ \/ c.pc = "fetch"
     \/ ~c.response.ok
     \/ ~WellFormedBody(c.response.body)

\* C6. Every failed submission leaves loading false with an error message set
\* and the page able to take a new submission, and loading is never true once
\* every call has finished.
C6_FailuresRecoverable ==
  [][/\ \A c \in calls :
          FinishesFailed(c) => (loading' = FALSE /\ error' # JNull /\ ~crashed')
     /\ calls' = {} => loading' = FALSE]_vars

\* C9. An error message and an upload result are never shown together.
C9_ErrorExcludesResult == error # JNull => uploadResult = JNull

\* C10. loading is true exactly when some submission has not finished.
C10_LoadingTracksRequests == loading <=> calls # {}

\* str spells name up to the case of its letters.
IsCaseVariant(str, name) ==
  /\ Len(str) = Len(name)
  /\ \A k \in 1..Len(name) :
       \/ str[k] = name[k]
       \/ \E j \in 1..Len(LowerLetters) :
            LowerLetters[j] = name[k] /\ UpperLetters[j] = str[k]

Families ==
  {<<BAR, "BarChart">>, <<LINE, "LineChart">>, <<PIE, "PieChart">>,
   <<SCATTER, "ScatterChart">>, <<AREA, "AreaChart">>}

\* C7. A type that spells bar, line, pie, scatter or area in any case renders
\* that chart family; any other type renders the placeholder with the type
\* string as received; the footer always reports data.length.
C7_DispatchTotalCaseInsensitive ==
  rendered # NotRendered =>
    /\ \A f \in Families :
         IsCaseVariant(suggestion.type, f[1]) => rendered.chart.chart = f[2]
    /\ (\A f \in Families : ~IsCaseVariant(suggestion.type, f[1])) =>
         /\ rendered.chart.chart = "unsupported"
         /\ rendered.chart.shownType = suggestion.type
    /\ rendered.footer = Len(suggestion.data)

\* A mixed-case spelling of a known type has been rendered.
C7_Witness ==
  /\ rendered # NotRendered
  /\ suggestion.type = <<"P", "i", "E">>
  /\ Len(suggestion.data) = 2

PaletteSize == 6

\* C8. Bar, line, scatter and area charts take palette[index mod 6], so index
\* and index + 6 give the same colour; pie slice k takes palette[k mod 6]
\* whatever the suggestion's own index.
C8_ColorSelection ==
  rendered # NotRendered =>
    /\ rendered.chart.chart \in {"BarChart", "LineChart", "ScatterChart", "AreaChart"} =>
         /\ rendered.chart.fill = COLORS[(index % PaletteSize) + 1]
         /\ renderChart(suggestion, index + PaletteSize).fill = rendered.chart.fill
    /\ rendered.chart.chart = "PieChart" =>
         /\ Len(rendered.chart.cells) = Len(suggestion.data)
         /\ \A k \in 1..Len(suggestion.data) :
              rendered.chart.cells[k] = COLORS[((k - 1) % PaletteSize) + 1]
         /\ \A j \in 0..MaxIndex :
              renderChart(suggestion, j).cells = rendered.chart.cells

\* A bar chart rendered at an index past the end of the palette.
C8_Witness ==
  /\ rendered # NotRendered
  /\ rendered.chart.chart = "BarChart"
  /\ index >= PaletteSize


====
